---- MODULE Spec2Model ----
(***************************************************************************)
(* Model of the two scripts of omniTAK-mobile:                             *)
(*   apps/omnitak/fix_duplicates.py        (descriptor deduplicator)       *)
(*   plugin-template/scripts/validate_plugin.py   (manifest validator)     *)
(*                                                                         *)
(* Text is modelled as a sequence of tokens, a token being a piece of text *)
(* of one or more characters.  `tok in line` (substring test) is token     *)
(* membership, and a regular expression is matched token by token.         *)
(***************************************************************************)
EXTENDS Integers, Sequences, FiniteSets, TLC

VARIABLES
    \* ---- fix_duplicates.py: locals of fix_duplicate_build_files
    lines,               \* list returned by f.readlines()
    pos,                 \* number of elements of `lines` the for loop has consumed
    in_sources_phase,
    seen_files,
    new_lines,
    duplicates_removed,
    emitted,             \* history: emitted[i] iff iteration i appended lines[i]
    \* ---- fix_duplicates.py: files and control
    project,             \* the project.pbxproj file
    backup,              \* the project.pbxproj.backup file
    orig,                \* history: the project file when the run started
    pc,                  \* position of the script
    raised,              \* call whose exception left the script ("none" if none)
    exit_status,         \* exit status of the process (-1 while running)
    \* ---- validate_plugin.py
    plugin_json,         \* state of ./plugin.json
    manifest,            \* what json.load returns
    files,               \* required paths that exist in the working directory
    vpc,                 \* position of the validator
    evaluated,           \* history: checks evaluated, in order
    errors,              \* validation errors printed
    printed,             \* kinds of every line printed, in order
    vraised,             \* exception that left main() uncaught ("none" if none)
    vexit                \* exit status of the validator (-1 while running)

loopVars == <<lines, pos, in_sources_phase, seen_files, new_lines, duplicates_removed, emitted>>
fileVars == <<project, backup, orig, pc, raised, exit_status>>
validVars == <<plugin_json, manifest, files, vpc, evaluated, errors, printed, vraised, vexit>>
vars == <<loopVars, fileVars, validVars>>

\* ---------------------------------------------------------------- bounds
MaxLen == 5        \* lines of a descriptor explored by the loop specification
MaxFile == 3       \* lines of a descriptor file in the whole-script specification
MaxDefects == 2    \* fields/files of the valid plugin that an input alters
MaxPerms == 2      \* entries of an altered permission list

Min(S) == CHOOSE x \in S : \A y \in S : x <= y

\* ================================================================
\*  fix_duplicates.py
\* ================================================================
BeginTok == "Begin PBXSourcesBuildPhase"
EndTok == "End PBXSourcesBuildPhase"
SourcesTok == " in Sources */"
OpenTok == "/* "

\* `tok in line`
Contains(line, tok) == \E i \in 1..Len(line) : line[i] = tok

\* re.search(r'/\* (.+?) in Sources \*/', line): the positions where a match
\* can start: "/* ", at least one token, then " in Sources */".
MatchStarts(line) ==
    {i \in 1..Len(line) : line[i] = OpenTok
                          /\ \E j \in (i + 2)..Len(line) : line[j] = SourcesTok}

filename_match(line) == MatchStarts(line) # {}

\* filename_match.group(1): leftmost start, shortest (non-greedy) group
filename(line) ==
    LET i == Min(MatchStarts(line))
        j == Min({k \in (i + 2)..Len(line) : line[k] = SourcesTok})
    IN SubSeq(line, i + 1, j - 1)

\* The lines the model feeds to the loop.
LineBegin == <<"/* ", BeginTok, " section */">>
LineEnd == <<"/* ", EndTok, " section */">>
LineBoth == <<"/* ", EndTok, " */ /* ", BeginTok, " */">>
LineA1 == <<"\t\t1A ", "/* ", "A.swift", " in Sources */", ",">>
LineA2 == <<"\t\t2A ", "/* ", "A.swift", " in Sources */", ",">>
LineB1 == <<"\t\t1B ", "/* ", "B.swift", " in Sources */", ",">>
LineC1 == <<"\t\t1C ", "/* ", "C.swift", " in Sources */", ",">>
LineNoName == <<"\t\t/*", " in Sources */", ",">>
LineOther == <<"\t\t);">>

Lines == {LineBegin, LineEnd, LineBoth, LineA1, LineA2, LineB1, LineC1, LineNoName,
          LineOther}

\* State of the loop (the locals the for loop reads and writes).
LoopState == [in_sources_phase |-> in_sources_phase, seen_files |-> seen_files,
              new_lines |-> new_lines, duplicates_removed |-> duplicates_removed]

LoopStart == [in_sources_phase |-> FALSE, seen_files |-> {},
              new_lines |-> <<>>, duplicates_removed |-> 0]

\* new_lines.append(line)
Emit(st, line) == [st EXCEPT !.new_lines = Append(@, line)]

\* lines 31-34
OnBegin(st, line) == Emit([st EXCEPT !.in_sources_phase = TRUE], line)

\* lines 37-41
OnEnd(st, line) == Emit([st EXCEPT !.in_sources_phase = FALSE, !.seen_files = {}], line)

\* lines 46-56: a line of the sources phase holding ' in Sources */'
OnSourcesLine(st, line) ==
    IF filename_match(line)
    THEN IF filename(line) \notin st.seen_files
         THEN Emit([st EXCEPT !.seen_files = @ \cup {filename(line)}], line)
         ELSE [st EXCEPT !.duplicates_removed = @ + 1]
    ELSE Emit(st, line)

\* Slips of the loop body, one for each claim about it.
\* seen_files is never cleared:
LoopBodyNeverClears(st, line) ==
    IF Contains(line, BeginTok) THEN OnBegin(st, line)
    ELSE IF Contains(line, EndTok) THEN Emit([st EXCEPT !.in_sources_phase = FALSE], line)
    ELSE IF st.in_sources_phase /\ Contains(line, SourcesTok) THEN OnSourcesLine(st, line)
    ELSE Emit(st, line)

\* seen_files is cleared when a region opens, not when it closes:
LoopBodyClearsOnBegin(st, line) ==
    IF Contains(line, BeginTok) THEN OnBegin([st EXCEPT !.seen_files = {}], line)
    ELSE IF Contains(line, EndTok) THEN Emit([st EXCEPT !.in_sources_phase = FALSE], line)
    ELSE IF st.in_sources_phase /\ Contains(line, SourcesTok) THEN OnSourcesLine(st, line)
    ELSE Emit(st, line)

\* a dropped duplicate is forgotten (seen_files toggled):
LoopBodyForgets(st, line) ==
    IF Contains(line, BeginTok) THEN OnBegin(st, line)
    ELSE IF Contains(line, EndTok) THEN OnEnd(st, line)
    ELSE IF st.in_sources_phase /\ Contains(line, SourcesTok)
    THEN IF filename_match(line) /\ filename(line) \in st.seen_files
         THEN [st EXCEPT !.duplicates_removed = @ + 1, !.seen_files = @ \ {filename(line)}]
         ELSE OnSourcesLine(st, line)
    ELSE Emit(st, line)

\* the sources phase is not tested:
LoopBodyEverywhere(st, line) ==
    IF Contains(line, BeginTok) THEN OnBegin(st, line)
    ELSE IF Contains(line, EndTok) THEN OnEnd(st, line)
    ELSE IF Contains(line, SourcesTok) THEN OnSourcesLine(st, line)
    ELSE Emit(st, line)

\* the identifier is the whole line, so only identical lines are duplicates:
LoopBodyWholeLine(st, line) ==
    IF Contains(line, BeginTok) THEN OnBegin(st, line)
    ELSE IF Contains(line, EndTok) THEN OnEnd(st, line)
    ELSE IF st.in_sources_phase /\ Contains(line, SourcesTok) /\ filename_match(line)
    THEN IF line \notin st.seen_files
         THEN Emit([st EXCEPT !.seen_files = @ \cup {line}], line)
         ELSE [st EXCEPT !.duplicates_removed = @ + 1]
    ELSE Emit(st, line)

\* The body of `for line in lines:` (lines 29-58).
LoopBody(st, line) ==
    IF Contains(line, BeginTok) THEN OnBegin(st, line)
    ELSE IF Contains(line, EndTok) THEN OnEnd(st, line)
    ELSE IF st.in_sources_phase /\ Contains(line, SourcesTok) THEN OnSourcesLine(st, line)
    ELSE Emit(st, line)

\* The whole loop over a list of lines, from the initial locals (lines 24-58).
RECURSIVE RunFrom(_, _)
RunFrom(st, L) == IF L = <<>> THEN st ELSE RunFrom(LoopBody(st, Head(L)), Tail(L))

Run(L) == RunFrom(LoopStart, L)

\* One iteration of the loop on `line`.
Iterate(line) ==
    LET st == LoopBody(LoopState, line) IN
    /\ in_sources_phase' = st.in_sources_phase
    /\ seen_files' = st.seen_files
    /\ new_lines' = st.new_lines
    /\ duplicates_removed' = st.duplicates_removed
    /\ emitted' = Append(emitted, Len(st.new_lines) > Len(new_lines))
    /\ pos' = pos + 1

NoFile == [exists |-> FALSE, content |-> <<>>]
File(c) == [exists |-> TRUE, content |-> c]

ValidatorIdle ==
    /\ plugin_json = "missing" /\ manifest = <<>> /\ files = {} /\ vpc = "idle"
    /\ evaluated = <<>> /\ errors = <<>> /\ printed = <<>> /\ vraised = "none"
    /\ vexit = -1

FixIdle ==
    /\ project = NoFile /\ backup = NoFile /\ orig = NoFile /\ pc = "idle"
    /\ raised = "none" /\ exit_status = -1

LoopIdle ==
    /\ lines = <<>> /\ pos = 0 /\ in_sources_phase = FALSE /\ seen_files = {}
    /\ new_lines = <<>> /\ duplicates_removed = 0 /\ emitted = <<>>

\* ---- the loop on every descriptor of at most MaxLen lines: the descriptor
\* is read line by line, each next line being any line of Lines.
InitDedup == LoopIdle /\ FixIdle /\ ValidatorIdle

LoopAny ==
    /\ Len(lines) < MaxLen
    /\ \E line \in Lines :
        /\ lines' = Append(lines, line)
        /\ Iterate(line)
    /\ UNCHANGED <<fileVars, validVars>>

NextDedup == LoopAny

SpecDedup == InitDedup /\ [][NextDedup]_vars

\* ---- the whole script on a descriptor file of at most MaxFile lines
FileLines == {LineBegin, LineEnd, LineA1, LineA2, LineB1, LineOther}

RECURSIVE SeqsUpTo(_, _)
SeqsUpTo(S, n) ==
    IF n = 0 THEN {<<>>}
    ELSE LET shorter == SeqsUpTo(S, n - 1)
         IN shorter \cup {Append(q, x) : q \in {r \in shorter : Len(r) = n - 1}, x \in S}

Descriptors(n) == SeqsUpTo(FileLines, n)

InitFix ==
    /\ LoopIdle /\ ValidatorIdle
    /\ project \in {NoFile} \cup {File(c) : c \in Descriptors(MaxFile)}
    /\ backup \in {NoFile, File(<<LineOther>>)}
    /\ orig = project
    /\ pc = "main" /\ raised = "none" /\ exit_status = -1

\* An exception leaves the script: nothing catches it, the interpreter prints
\* the traceback and exits with status 1.
Uncaught(call) == pc' = "exit" /\ raised' = call /\ exit_status' = 1

\* lines 69-77: the existence test of __main__; the else branch prints
\* "Error: Project file not found" and the script ends normally.
Main ==
    /\ pc = "main"
    /\ IF project.exists
       THEN pc' = "unlink" /\ UNCHANGED <<raised, exit_status>>
       ELSE pc' = "exit" /\ exit_status' = 0 /\ UNCHANGED raised
    /\ UNCHANGED <<project, backup, orig, loopVars, validVars>>

\* lines 13-15: a backup left by an earlier run is removed
RemoveOldBackup ==
    /\ pc = "unlink"
    /\ IF backup.exists
       THEN \/ backup' = NoFile /\ pc' = "copy" /\ UNCHANGED <<raised, exit_status>>
            \/ Uncaught("unlink") /\ UNCHANGED backup
       ELSE pc' = "copy" /\ UNCHANGED <<backup, raised, exit_status>>
    /\ UNCHANGED <<project, orig, loopVars, validVars>>

\* A failed copy that the script ignores.
CopyBackupIgnoresFailure ==
    /\ pc = "copy"
    /\ \/ backup' = File(project.content)
       \/ backup' \in {NoFile, File(<<>>)}
    /\ pc' = "read"
    /\ UNCHANGED <<raised, exit_status, project, orig, loopVars, validVars>>

\* line 16: shutil.copy2 either copies the whole file or raises, leaving no
\* backup or a truncated one
CopyBackup ==
    /\ pc = "copy"
    /\ \/ backup' = File(project.content) /\ pc' = "read" /\ UNCHANGED <<raised, exit_status>>
       \/ backup' \in {NoFile, File(<<>>)} /\ Uncaught("copy2")
    /\ UNCHANGED <<project, orig, loopVars, validVars>>

\* lines 20-27: readlines and the initial locals
ReadLines ==
    /\ pc = "read"
    /\ \/ /\ lines' = project.content
          /\ pc' = "loop"
          /\ UNCHANGED <<raised, exit_status>>
       \/ Uncaught("read") /\ UNCHANGED lines
    /\ UNCHANGED <<pos, in_sources_phase, seen_files, new_lines, duplicates_removed,
                   emitted, project, backup, orig, validVars>>

\* lines 29-58: one iteration
LoopStep ==
    /\ pc = "loop" /\ pos < Len(lines)
    /\ Iterate(lines[pos + 1])
    /\ UNCHANGED <<lines, fileVars, validVars>>

\* lines 60-64: the loop is over; open(project_path, 'w') truncates the file
\* and writelines fills it, or raises leaving it truncated
WriteFixed ==
    /\ pc = "loop" /\ pos = Len(lines)
    /\ \/ project' = File(new_lines) /\ pc' = "written" /\ UNCHANGED <<raised, exit_status>>
       \/ project' = File(<<>>) /\ Uncaught("write")
    /\ UNCHANGED <<backup, orig, loopVars, validVars>>

\* lines 66-67 and 75: the closing messages; the script ends normally
Finish ==
    /\ pc = "written"
    /\ pc' = "exit" /\ exit_status' = 0
    /\ UNCHANGED <<raised, project, backup, orig, loopVars, validVars>>

NextFix ==
    \/ Main
    \/ RemoveOldBackup
    \/ CopyBackup
    \/ ReadLines
    \/ LoopStep
    \/ WriteFixed
    \/ Finish

SpecFix == InitFix /\ [][NextFix]_vars

\* C6: the project file is written only once the backup holds the whole
\* original, and a run that stops because the source is missing or the copy
\* failed leaves the project file as it was.
C6_BackupBeforeWrite ==
    [][/\ project' # project => (orig.exists /\ backup = orig)
       /\ (pc' = "exit" /\ (~orig.exists \/ raised' = "copy2"))
             => (project' = orig /\ pos' = 0)]_vars

C6_Witness ==
    /\ pc = "exit" /\ raised = "none" /\ exit_status = 0
    /\ orig.exists /\ project # orig /\ backup = orig /\ duplicates_removed > 0

\* ================================================================
\*  validate_plugin.py
\* ================================================================
\* A JSON value: its Python type and its tokens (the characters of a str, the
\* elements of a list, the keys of a dict).
Str(v) == [t |-> "str", v |-> v]
List(v) == [t |-> "list", v |-> v]
Dict(v) == [t |-> "dict", v |-> v]
Num == [t |-> "num", v |-> <<>>]
Null == [t |-> "null", v |-> <<>>]
Absent == [t |-> "absent", v |-> <<>>]

Lower == {"a", "b", "c", "d", "e", "f", "g", "h", "i", "j", "k", "l", "m", "n", "o", "p",
          "q", "r", "s", "t", "u", "v", "w", "x", "y", "z"}
Upper == {"A", "B", "C", "D", "E", "F", "G", "H", "I", "J", "K", "L", "M", "N", "O", "P",
          "Q", "R", "S", "T", "U", "V", "W", "X", "Y", "Z"}
Digit == {"0", "1", "2", "3", "4", "5", "6", "7", "8", "9"}

\* What a validation function hands back: (True, None), (False, message), or
\* an exception.
Pass == [r |-> "pass", error |-> <<>>]
Fail(e) == [r |-> "fail", error |-> e]
Raise(x) == [r |-> "raise", error |-> <<x>>]

\* r'^[a-z][a-z0-9]*(\.[a-z][a-z0-9]*)+$'
IdDelta(q, c) ==
    CASE q = "start" -> IF c \in Lower THEN "first" ELSE "reject"
      [] q = "first" -> IF c \in Lower \cup Digit THEN "first"
                        ELSE IF c = "." THEN "dot" ELSE "reject"
      [] q = "dot" -> IF c \in Lower THEN "segment" ELSE "reject"
      [] q = "segment" -> IF c \in Lower \cup Digit THEN "segment"
                          ELSE IF c = "." THEN "dot" ELSE "reject"
      [] OTHER -> "reject"

\* r'^\d+\.\d+\.\d+(-[a-zA-Z0-9]+)?$'
VersionDelta(q, c) ==
    CASE q = "start" -> IF c \in Digit THEN "major" ELSE "reject"
      [] q = "major" -> IF c \in Digit THEN "major" ELSE IF c = "." THEN "dot1" ELSE "reject"
      [] q = "dot1" -> IF c \in Digit THEN "minor" ELSE "reject"
      [] q = "minor" -> IF c \in Digit THEN "minor" ELSE IF c = "." THEN "dot2" ELSE "reject"
      [] q = "dot2" -> IF c \in Digit THEN "patch" ELSE "reject"
      [] q = "patch" -> IF c \in Digit THEN "patch" ELSE IF c = "-" THEN "dash" ELSE "reject"
      [] q = "dash" -> IF c \in Lower \cup Upper \cup Digit THEN "pre" ELSE "reject"
      [] q = "pre" -> IF c \in Lower \cup Upper \cup Digit THEN "pre" ELSE "reject"
      [] OTHER -> "reject"

\* The automaton of each pattern, and the states in which it has matched.
Delta(pattern, q, c) == IF pattern = "id" THEN IdDelta(q, c) ELSE VersionDelta(q, c)
Accepting(pattern) == IF pattern = "id" THEN {"segment"} ELSE {"patch", "pre"}

\* re.match(pattern, s), from state q at character i; `$` also matches before
\* a final newline.
RECURSIVE ReMatch(_, _, _, _)
ReMatch(pattern, s, i, q) ==
    IF q = "reject" THEN FALSE
    ELSE IF i > Len(s) THEN q \in Accepting(pattern)
    ELSE IF i = Len(s) /\ s[i] = "\n" /\ q \in Accepting(pattern) THEN TRUE
    ELSE ReMatch(pattern, s, i + 1, Delta(pattern, q, s[i]))

\* lines 11-16; re.match raises TypeError on anything but a string
validate_plugin_id(plugin_id) ==
    IF plugin_id.t # "str" THEN Raise("TypeError")
    ELSE IF ~ReMatch("id", plugin_id.v, 1, "start")
    THEN Fail(<<"Invalid plugin ID format: ">> \o plugin_id.v)
    ELSE Pass

\* lines 18-23
validate_version(version) ==
    IF version.t # "str" THEN Raise("TypeError")
    ELSE IF ~ReMatch("version", version.v, 1, "start")
    THEN Fail(<<"Invalid version format: ">> \o version.v)
    ELSE Pass

valid_permissions ==
    <<"network.access", "location.read", "location.write", "cot.read", "cot.write",
      "map.read", "map.write", "storage.read", "storage.write", "ui.create",
      "notifications.send", "bluetooth.access", "filesystem.read", "filesystem.write">>

In(x, list) == \E i \in 1..Len(list) : list[i] = x

\* The loop reports the last entry that is not allowed instead of the first.
RECURSIVE PermLoopLast(_)
PermLoopLast(perms) ==
    IF perms = <<>> THEN Pass
    ELSE LET rest == PermLoopLast(Tail(perms))
         IN IF rest.r = "fail" THEN rest
            ELSE IF ~In(Head(perms), valid_permissions)
            THEN Fail(<<"Invalid permission: ", Head(perms)>>)
            ELSE Pass

\* lines 44-48: `for perm in permissions`
RECURSIVE PermLoop(_)
PermLoop(perms) ==
    IF perms = <<>> THEN Pass
    ELSE IF ~In(Head(perms), valid_permissions)
    THEN Fail(<<"Invalid permission: ", Head(perms)>>)
    ELSE PermLoop(Tail(perms))

\* lines 25-48; a number or null is not iterable, a str is iterated character
\* by character and a dict key by key
validate_permissions(permissions) ==
    IF permissions.t \in {"num", "null"} THEN Raise("TypeError")
    ELSE PermLoop(permissions.v)

\* `'ios' in x` (lines 79, 83): membership in a list, key of a dict, substring
\* of a str; a number or null raises TypeError
HasIos(x, message) ==
    IF x.t \in {"num", "null"} THEN Raise("TypeError")
    ELSE IF ~In("ios", x.v) THEN Fail(<<message>>)
    ELSE Pass

valid_types == <<"ui", "data", "protocol", "map", "hybrid">>

\* lines 87-89: only a str equal to one of valid_types is in the list
ValidType(type) ==
    IF type.t = "str" /\ Len(type.v) = 1 /\ In(type.v[1], valid_types)
    THEN Pass
    ELSE Fail(<<"Invalid plugin type: ">> \o type.v)

required_fields ==
    <<"id", "name", "version", "description", "author", "license", "omnitak_version",
      "type", "platforms", "permissions", "entry_points">>

required_files ==
    <<"plugin.json", "ios/BUILD.bazel", "ios/Info.plist", "ios/Sources/PluginMain.swift">>

\* The value json.load returned: a dict with its fields, or a number.
Manifest(fields) == [t |-> "dict", fields |-> fields]
NumberManifest == [t |-> "num", fields |-> <<>>]

\* `field in manifest` and manifest[field]
HasField(m, f) == m.t = "dict" /\ f \in DOMAIN m.fields

\* lines 58-61: `field not in manifest` raises TypeError on a number
RequiredFields(m) ==
    IF m.t # "dict" THEN Raise("TypeError")
    ELSE LET missing == {i \in 1..Len(required_fields) : ~HasField(m, required_fields[i])}
         IN IF missing # {}
            THEN Fail(<<"Missing required field: ", required_fields[Min(missing)]>>)
            ELSE Pass

\* lines 93-106
validate_structure(existing) ==
    LET missing == {i \in 1..Len(required_files) : required_files[i] \notin existing}
    IN IF missing # {}
       THEN Fail(<<"Missing required file: ", required_files[Min(missing)]>>)
       ELSE Pass

\* manifest[f]: a missing key raises KeyError, a number has no items
Unreadable(m, f) == m.t # "dict" \/ ~HasField(m, f)
LookupError(m) == IF m.t # "dict" THEN Raise("TypeError") ELSE Raise("KeyError")

IosPlatform(x) == HasIos(x, "iOS platform not supported")
IosEntryPoint(x) == HasIos(x, "Missing iOS entry point")

\* The checks, numbered in the order validate_manifest and main make them.
Checks == 1..8

Check(k, m, existing) ==
    CASE k = 1 -> RequiredFields(m)
      [] k = 2 -> IF Unreadable(m, "id") THEN LookupError(m)
                  ELSE validate_plugin_id(m.fields["id"])
      [] k = 3 -> IF Unreadable(m, "version") THEN LookupError(m)
                  ELSE validate_version(m.fields["version"])
      [] k = 4 -> IF Unreadable(m, "permissions") THEN LookupError(m)
                  ELSE validate_permissions(m.fields["permissions"])
      [] k = 5 -> IF Unreadable(m, "platforms") THEN LookupError(m)
                  ELSE IosPlatform(m.fields["platforms"])
      [] k = 6 -> IF Unreadable(m, "entry_points") THEN LookupError(m)
                  ELSE IosEntryPoint(m.fields["entry_points"])
      [] k = 7 -> IF Unreadable(m, "type") THEN LookupError(m)
                  ELSE ValidType(m.fields["type"])
      [] k = 8 -> validate_structure(existing)

\* ---- inputs: the valid plugin, altered in at most MaxDefects places
PermSample == {"network.access", "filesystem.write", "root.access", "bogus.perm"}

BaseValue(f) ==
    CASE f = "id" -> Str(<<"c", "o", "m", ".", "t", "a", "k", "2">>)
      [] f = "version" -> Str(<<"1", ".", "0", ".", "1", "2">>)
      [] f = "permissions" -> List(<<"network.access">>)
      [] f = "platforms" -> List(<<"ios">>)
      [] f = "entry_points" -> Dict(<<"ios">>)
      [] f = "type" -> Str(<<"ui">>)
      [] OTHER -> Str(<<"text">>)

Alternatives(f) ==
    CASE f = "id" -> {Absent, Num, Str(<<"t", "a", "k">>), Str(<<"T", "a", "k", ".", "x">>)}
      [] f = "version" -> {Absent, Num, Str(<<"1", ".", "2">>),
                           Str(<<"1", ".", "2", ".", "3", "-", "r", "C", "1">>)}
      [] f = "permissions" ->
            {Absent, Null, Str(<<"m", "a", "p">>)} \cup ({List(q) : q \in SeqsUpTo(PermSample, MaxPerms)}
                                 \ {List(<<"network.access">>)})
      [] f = "platforms" -> {Absent, Num, List(<<"android">>), List(<<"android", "ios">>)}
      [] f = "entry_points" -> {Absent, Null, Dict(<<"android">>)}
      [] f = "type" -> {Absent, Str(<<"theme">>), List(<<"ui">>)}
      [] OTHER -> {Absent}

\* Positions an input can alter: the fields, then the files other than
\* plugin.json.
Position(i) ==
    IF i <= Len(required_fields) THEN required_fields[i]
    ELSE required_files[i - Len(required_fields) + 1]

NumPositions == Len(required_fields) + Len(required_files) - 1

Present == [t |-> "file", v |-> <<>>]

\* Choices for positions 1..i with at most d of them altered.
RECURSIVE Altered(_, _)
Altered(i, d) ==
    IF i = 0 THEN {<<>>}
    ELSE {Append(a, IF i <= Len(required_fields) THEN BaseValue(Position(i)) ELSE Present) :
             a \in Altered(i - 1, d)}
         \cup (IF d = 0 THEN {}
               ELSE {Append(a, x) : a \in Altered(i - 1, d - 1),
                                    x \in IF i <= Len(required_fields)
                                          THEN Alternatives(Position(i)) ELSE {Absent}})

ManifestOf(a) ==
    LET present == {i \in 1..Len(required_fields) : a[i] # Absent}
    IN Manifest([f \in {required_fields[i] : i \in present} |->
                    a[CHOOSE i \in present : required_fields[i] = f]])

FilesOf(a) ==
    {"plugin.json"} \cup {Position(i) : i \in {j \in (Len(required_fields) + 1)..Len(a) :
                                                 a[j] # Absent}}

Plugins(d) ==
    {[value |-> ManifestOf(a), files |-> FilesOf(a)] : a \in Altered(NumPositions, d)}

NotLoaded == [t |-> "none", fields |-> <<>>]

InitValidate ==
    /\ LoopIdle /\ FixIdle
    /\ \/ \E p \in Plugins(MaxDefects) :
            /\ plugin_json = [state |-> "ok", value |-> p.value]
            /\ files = p.files
       \/ /\ plugin_json = [state |-> "ok", value |-> NumberManifest]
          /\ files = {required_files[i] : i \in 1..Len(required_files)}
       \/ /\ plugin_json \in {[state |-> st, value |-> NotLoaded] :
                               st \in {"badjson", "badencoding", "unreadable"}}
          /\ files \in {{"plugin.json"}, {required_files[i] : i \in 1..Len(required_files)}}
       \/ /\ plugin_json = [state |-> "missing", value |-> NotLoaded]
          /\ files \in {{}, {required_files[i] : i \in 2..Len(required_files)}}
    /\ manifest = NotLoaded
    /\ vpc = "load" /\ evaluated = <<>> /\ errors = <<>> /\ printed = <<>>
    /\ vraised = "none" /\ vexit = -1

\* main() returns 1 after printing a failure line (sys.exit(main()))
Return1(line) ==
    /\ printed' = Append(printed, line)
    /\ vpc' = "exit" /\ vexit' = 1
    /\ UNCHANGED vraised

\* an exception leaves main(): traceback, exit status 1
Escapes(exc) ==
    /\ vraised' = exc
    /\ vpc' = "exit" /\ vexit' = 1
    /\ UNCHANGED printed

\* lines 110-121: only FileNotFoundError and JSONDecodeError are caught
Load ==
    /\ vpc = "load"
    /\ CASE plugin_json.state = "ok" ->
              /\ manifest' = plugin_json.value
              /\ vpc' = "check1"
              /\ UNCHANGED <<printed, vraised, vexit>>
         [] plugin_json.state = "missing" ->
              Return1("Error: plugin.json not found") /\ UNCHANGED manifest
         [] plugin_json.state = "badjson" ->
              Return1("Error: Invalid JSON in plugin.json") /\ UNCHANGED manifest
         [] plugin_json.state = "badencoding" ->
              Escapes("UnicodeDecodeError") /\ UNCHANGED manifest
         [] plugin_json.state = "unreadable" ->
              Escapes("PermissionError") /\ UNCHANGED manifest
    /\ UNCHANGED <<plugin_json, files, evaluated, errors, loopVars, fileVars>>

PcOf(k) ==
    CASE k = 1 -> "check1" [] k = 2 -> "check2" [] k = 3 -> "check3" [] k = 4 -> "check4"
      [] k = 5 -> "check5" [] k = 6 -> "check6" [] k = 7 -> "check7" [] k = 8 -> "check8"
      [] OTHER -> "success"

\* Every failed check is reported and the next check is made all the same.
AfterCheckAccumulates(k, res) ==
    /\ evaluated' = Append(evaluated, k)
    /\ CASE res.r = "pass" ->
              /\ vpc' = PcOf(k + 1)
              /\ UNCHANGED <<errors, printed, vraised, vexit>>
         [] res.r = "fail" ->
              /\ errors' = Append(errors, [check |-> k, error |-> res.error])
              /\ printed' = Append(printed, "validation failed")
              /\ vpc' = PcOf(k + 1)
              /\ UNCHANGED <<vraised, vexit>>
         [] res.r = "raise" ->
              Escapes(res.error[1]) /\ UNCHANGED errors
    /\ UNCHANGED <<plugin_json, manifest, files, loopVars, fileVars>>

\* What follows a check: `if not valid: return False, error` in
\* validate_manifest, and the `if not valid:` tests of main (lines 124-136).
AfterCheck(k, res) ==
    /\ evaluated' = Append(evaluated, k)
    /\ CASE res.r = "pass" ->
              /\ vpc' = PcOf(k + 1)
              /\ UNCHANGED <<errors, printed, vraised, vexit>>
         [] res.r = "fail" ->
              /\ errors' = Append(errors, [check |-> k, error |-> res.error])
              /\ Return1("validation failed")
         [] res.r = "raise" ->
              Escapes(res.error[1]) /\ UNCHANGED errors
    /\ UNCHANGED <<plugin_json, manifest, files, loopVars, fileVars>>

CheckRequiredFields == vpc = "check1" /\ AfterCheck(1, Check(1, manifest, files))
CheckPluginId == vpc = "check2" /\ AfterCheck(2, Check(2, manifest, files))
CheckVersion == vpc = "check3" /\ AfterCheck(3, Check(3, manifest, files))
CheckPermissions == vpc = "check4" /\ AfterCheck(4, Check(4, manifest, files))
CheckPlatforms == vpc = "check5" /\ AfterCheck(5, Check(5, manifest, files))
CheckEntryPoints == vpc = "check6" /\ AfterCheck(6, Check(6, manifest, files))
CheckType == vpc = "check7" /\ AfterCheck(7, Check(7, manifest, files))
CheckStructure == vpc = "check8" /\ AfterCheck(8, Check(8, manifest, files))

\* A run that prints the success lines returns 1 all the same.
SucceedReturns1 ==
    /\ vpc = "success"
    /\ printed' = Append(printed, "Plugin validation successful!")
    /\ vpc' = "exit" /\ vexit' = 1
    /\ UNCHANGED <<plugin_json, manifest, files, evaluated, errors, vraised, loopVars,
                   fileVars>>

\* lines 138-145: the success lines, return 0
Succeed ==
    /\ vpc = "success"
    /\ printed' = Append(printed, "Plugin validation successful!")
    /\ vpc' = "exit" /\ vexit' = 0
    /\ UNCHANGED <<plugin_json, manifest, files, evaluated, errors, vraised, loopVars,
                   fileVars>>

Next ==
    \/ Load
    \/ CheckRequiredFields
    \/ CheckPluginId
    \/ CheckVersion
    \/ CheckPermissions
    \/ CheckPlatforms
    \/ CheckEntryPoints
    \/ CheckType
    \/ CheckStructure
    \/ Succeed

Init == InitValidate

Spec == Init /\ [][Next]_vars

\* ---------------------------------------------------------------- claims
\* about the validator
Loaded == plugin_json.state = "ok"

\* What check k makes of the plugin under validation.
Outcome(k) == Check(k, plugin_json.value, files)

NotPassing == {k \in Checks : Outcome(k).r # "pass"}
Failing == {k \in Checks : Outcome(k).r = "fail"}

\* C1: the checks are made in the order 1..8 and the run stops at the first
\* check that does not pass: it alone is evaluated last and reported, and no
\* later check is evaluated or reported.
C1_FirstFailureOnly ==
    /\ Len(errors) <= 1
    /\ \A i \in 1..Len(evaluated) : evaluated[i] = i
    /\ (vpc = "exit" /\ Loaded) =>
          IF NotPassing = {}
          THEN errors = <<>> /\ Len(evaluated) = 8
          ELSE LET k == Min(NotPassing) IN
               /\ Len(evaluated) = k
               /\ errors = IF Outcome(k).r = "fail"
                           THEN <<[check |-> k, error |-> Outcome(k).error]>>
                           ELSE <<>>

C1_Witness ==
    /\ vpc = "exit" /\ Loaded
    /\ Cardinality(Failing) >= 2 /\ NotPassing = Failing
    /\ Min(Failing) >= 3
    /\ errors = <<[check |-> Min(Failing), error |-> Outcome(Min(Failing)).error]>>

\* C2: the exit status is 0 exactly when plugin.json was loaded, every
\* manifest check passes and every required file exists; otherwise it is 1.
C2_ExitStatus ==
    vpc = "exit" =>
        /\ vexit \in {0, 1}
        /\ vexit = 0 <=> /\ Loaded
                         /\ \A k \in 1..7 : Outcome(k).r = "pass"
                         /\ \A i \in 1..Len(required_files) : required_files[i] \in files

C2_Witness == vpc = "exit" /\ vexit = 0 /\ errors = <<>> /\ Len(evaluated) = 8

\* C7: no exception escapes: every run ends with the error caught and
\* reported by the script, and an error ends the run with a non-zero status.
C7_NoExceptionEscapes == vpc = "exit" => vraised = "none"

\* C8: the permission check passes exactly when every entry is one of the 14
\* allowed strings, and a failure names the first entry that is not.
AllowList == {valid_permissions[i] : i \in 1..Len(valid_permissions)}

C8_PermissionsAllowList ==
    /\ Cardinality(AllowList) = 14
    /\ (Len(evaluated) >= 4 /\ manifest.fields["permissions"].t = "list") =>
          LET perms == manifest.fields["permissions"].v
              bad == {i \in 1..Len(perms) : perms[i] \notin AllowList}
              passed == Len(evaluated) > 4 \/ vpc = "check5"
          IN /\ passed <=> bad = {}
             /\ bad # {} =>
                   /\ vpc = "exit" /\ vexit = 1
                   /\ errors = <<[check |-> 4,
                                  error |-> <<"Invalid permission: ", perms[Min(bad)]>>]>>

C8_Witness ==
    /\ Len(evaluated) = 4 /\ vpc = "exit"
    /\ manifest.fields["permissions"] = List(<<"filesystem.write", "root.access">>)
    /\ errors = <<[check |-> 4, error |-> <<"Invalid permission: ", "root.access">>]>>

\* ---------------------------------------------------------------- vocabulary
\* of the claims about the loop.  A line holding both sentinel texts is a
\* region-open line: the loop tests 'Begin PBXSourcesBuildPhase' first.
LineKind(l) ==
    IF Contains(l, BeginTok) THEN "open"
    ELSE IF Contains(l, EndTok) THEN "close"
    ELSE IF Contains(l, SourcesTok) /\ filename_match(l) THEN "entry"
    ELSE "other"

\* The kind and the identifier of each line of Lines (<<>>: no identifier).
KindOf == [l \in Lines |-> LineKind(l)]
IdOf == [l \in Lines |-> IF LineKind(l) = "entry" THEN filename(l) ELSE <<>>]

IsOpen(l) == KindOf[l] = "open"
IsClose(l) == KindOf[l] = "close"
IsEntry(l) == KindOf[l] = "entry"

\* Line i of L lies in a region: after a region-open line, with no region-close
\* line in between.  A region lasts until its region-close line.
InRegion(L, i) ==
    \E j \in 1..(i - 1) : IsOpen(L[j]) /\ \A k \in (j + 1)..(i - 1) : ~IsClose(L[k])

\* for i < j
SameRegion(L, i, j) ==
    (\A k \in i..j : ~IsClose(L[k])) /\ InRegion(L, i)

SameId(L, i, j) == IdOf[L[i]] # <<>> /\ IdOf[L[i]] = IdOf[L[j]]

\* The elements of L at the positions E marks, in order.
RECURSIVE Pick(_, _)
Pick(L, E) ==
    IF L = <<>> THEN <<>>
    ELSE IF Head(E) THEN <<Head(L)>> \o Pick(Tail(L), Tail(E))
    ELSE Pick(Tail(L), Tail(E))

Dropped == {i \in 1..pos : ~emitted[i]}

\* C3: in the output no identifier is on two entry lines of one region, and an
\* identifier occurring once in each of two different regions is kept in both.
OnceInRegion(L, i) ==
    /\ \A k \in 1..(i - 1) : SameId(L, k, i) => ~SameRegion(L, k, i)
    /\ \A k \in (i + 1)..Len(L) : SameId(L, i, k) => ~SameRegion(L, i, k)

TwoRegions(i, j) ==
    /\ i < j /\ SameId(lines, i, j)
    /\ ~SameRegion(lines, i, j) /\ InRegion(lines, i) /\ InRegion(lines, j)
    /\ OnceInRegion(lines, i) /\ OnceInRegion(lines, j)

C3_RegionScopedUniqueness ==
    /\ \A p \in 1..Len(new_lines) : \A q \in (p + 1)..Len(new_lines) :
          SameId(new_lines, p, q) => ~SameRegion(new_lines, p, q)
    /\ \A i \in 1..pos : \A j \in (i + 1)..pos :
          TwoRegions(i, j) => emitted[i] /\ emitted[j]

C3_Witness ==
    \E i, j \in 1..pos : TwoRegions(i, j) /\ emitted[i] /\ emitted[j]

\* C4: the loop run on its own output drops nothing and returns that output.
C4_Idempotent ==
    LET again == Run(new_lines)
    IN again.new_lines = new_lines /\ again.duplicates_removed = 0

C4_Witness == pos = MaxLen /\ duplicates_removed >= 2

\* C5: a line outside every region, or not an entry line, is emitted; the
\* output is the emitted input lines, verbatim and in input order.
Protected(L, i) == ~(InRegion(L, i) /\ IsEntry(L[i]))

C5_FramePreserved ==
    /\ \A i \in 1..pos : Protected(lines, i) => emitted[i]
    /\ new_lines = Pick(lines, emitted)

C5_Witness ==
    /\ Dropped # {}
    /\ \E i \in 1..pos : IsEntry(lines[i]) /\ ~InRegion(lines, i)
    /\ \E i \in 1..pos : ~IsEntry(lines[i]) /\ InRegion(lines, i) /\ ~IsOpen(lines[i])

\* C10: exactly the entry lines that repeat an identifier of an earlier entry
\* line of their region are dropped, the kept lines keep their order, and the
\* count is the number of dropped lines (input length minus output length).
Repeats(L, i) == \E j \in 1..(i - 1) : SameId(L, j, i) /\ SameRegion(L, j, i)

C10_KeepsFirstDropsLater ==
    /\ \A i \in 1..pos : emitted[i] <=> ~Repeats(lines, i)
    /\ new_lines = Pick(lines, emitted)
    /\ duplicates_removed = Cardinality(Dropped)
    /\ duplicates_removed = pos - Len(new_lines)

C10_Witness ==
    /\ lines = <<LineBegin, LineA1, LineB1, LineA2, LineC1>>
    /\ new_lines = <<LineBegin, LineA1, LineB1, LineC1>>
    /\ duplicates_removed = 1

\* C9 as stated: right after a region-open line is processed, no identifier is
\* remembered.
C9_ResetOnOpen == (pos > 0 /\ IsOpen(lines[pos])) => seen_files = {}

\* C9 amended: identifiers reset when a region ends.  Right after a
\* region-close line no identifier is remembered; hence neither right after a
\* region-open line that no other region-open line precedes since the last
\* region-close line (or the start), and the first entry line of an identifier
\* after such a region-open line is emitted.
FreshOpen(L, p) ==
    IsOpen(L[p]) /\ \A j \in 1..(p - 1) : IsOpen(L[j]) => \E k \in (j + 1)..(p - 1) : IsClose(L[k])

FirstAfter(L, p, i) ==
    /\ p < i /\ IsEntry(L[i])
    /\ \A k \in (p + 1)..(i - 1) : ~IsClose(L[k]) /\ ~SameId(L, k, i)

C9_ResetOnClose ==
    /\ (pos > 0 /\ IsClose(lines[pos])) => seen_files = {}
    /\ (pos > 0 /\ FreshOpen(lines, pos)) => seen_files = {}
    /\ \A i \in Dropped : \A p \in 1..(i - 1) :
          ~(FreshOpen(lines, p) /\ FirstAfter(lines, p, i))

C9_Witness ==
    /\ pos >= 4 /\ FreshOpen(lines, pos - 1) /\ FirstAfter(lines, pos - 1, pos)
    /\ \E k \in 1..(pos - 2) : SameId(lines, k, pos) /\ InRegion(lines, k)
    /\ emitted[pos]

====
